---- MODULE Spec2Model ----
(***************************************************************************)
(* A model of calendar-kit's CalendarContainer (the imperative handle:     *)
(* goToDate, goToNextPage, goToPrevPage, zoom, setVisibleDate, goToHour)   *)
(* and of EventItem's geometry (eventWidth, eventPosX, animView), both in  *)
(* src/src/CalendarContainer.tsx.                                          *)
(*                                                                         *)
(* Numbers of the program are JavaScript doubles.  The model computes with *)
(* exact rationals <<numerator, denominator>> in lowest terms, so that a   *)
(* division such as totalWidth / total is not rounded to an integer.       *)
(***************************************************************************)
EXTENDS Integers, Sequences, FiniteSets, TLC

VARIABLES
    \* ---- EventItem (one day grid of rendered events) ----
    columnWidthAnim,       \* useBody().columnWidthAnim.value
    rightEdgeSpacing,      \* useBody().rightEdgeSpacing
    overlapEventsSpacing,  \* useBody().overlapEventsSpacing
    items,                 \* the mounted EventItems: their event._internal
    startUnix,             \* EventItem's prop startUnix (the page's first date)
    visibleDatesProp,      \* EventItem's prop visibleDates, as the set of its keys
    bodyStart,             \* useBody().start
    bodyEnd,               \* useBody().end
    \* ---- CalendarContainer: props and mounting ----
    phase,                 \* "unmounted" | "thrown" | "mounted"
    error,                 \* the message of the Error thrown by the render
    initialNumberOfDays,   \* prop numberOfDays
    hideWeekDaysProp,      \* prop hideWeekDays (initialHideWeekDays)
    hideWeekDays,          \* useState(initialHideWeekDays ?? [])
    scrollByDay,           \* prop scrollByDay
    \* ---- CalendarContainer: horizontal navigation ----
    visibleDateUnix,       \* visibleDateUnix.current
    triggerDateChanged,    \* triggerDateChanged.current
    scrollType,            \* scrollType.current
    gridScroll,            \* what the last call asked of scrollTo(gridListRef, ..)
    \* ---- CalendarContainer: zoom and the vertical axis ----
    minTimeIntervalHeight, \* prop
    maxTimeIntervalHeight, \* prop
    initialTimeIntervalHeight, \* prop
    timeIntervalHeight,    \* timeIntervalHeight.value, a withTiming animation
    offsetY,               \* offsetY.value, an animated scroll
    verticalScroll,        \* what the last call asked of scrollTo(verticalListRef, ..)
    zoomCalls,             \* number of zoom calls made so far
    \* ---- the last call of the imperative handle, with its arguments ----
    call

pageVars == <<startUnix, visibleDatesProp, bodyStart, bodyEnd>>
layoutVars == <<columnWidthAnim, rightEdgeSpacing, overlapEventsSpacing, items,
                pageVars>>
propVars == <<phase, error, initialNumberOfDays, hideWeekDaysProp, hideWeekDays,
              scrollByDay>>
navVars == <<visibleDateUnix, triggerDateChanged, scrollType, gridScroll>>
zoomVars == <<minTimeIntervalHeight, maxTimeIntervalHeight,
              initialTimeIntervalHeight, timeIntervalHeight, offsetY,
              verticalScroll, zoomCalls>>
vars == <<layoutVars, propVars, navVars, zoomVars, call>>

\* JavaScript's undefined, by the type of the value that is missing: a double
\* (a pair in this model) or an array, a date, a string.  Dates are positive, so
\* that no date is falsy; NoDate stands for the undefined of an unset ref or of
\* an index out of range.
Undefined == << >>
NoDate == 0
NoString == "undefined"

\* No call made, or the call made no scrollTo request.
NoCall == [op |-> "none"]
NoScroll == [requested |-> FALSE]

-----------------------------------------------------------------------------
(* Exact rational arithmetic for the program's doubles.                    *)

Abs(n) == IF n < 0 THEN -n ELSE n

Min(a, b) == IF a <= b THEN a ELSE b

RECURSIVE GCD(_, _)
GCD(a, b) == IF b = 0 THEN a ELSE GCD(b, a % b)

\* n/d in lowest terms with a positive denominator (d # 0).
Rat(n, d) ==
    LET s == IF d < 0 THEN -1 ELSE 1
        g == GCD(Abs(n), Abs(d))
    IN  <<(s * n) \div g, (s * d) \div g>>

I(n) == <<n, 1>>
RAdd(a, b) == Rat(a[1] * b[2] + b[1] * a[2], a[2] * b[2])
RSub(a, b) == Rat(a[1] * b[2] - b[1] * a[2], a[2] * b[2])
RMul(a, b) == Rat(a[1] * b[1], a[2] * b[2])
RDiv(a, b) == Rat(a[1] * b[2], a[2] * b[1])
RLeq(a, b) == a[1] * b[2] <= b[1] * a[2]
RLt(a, b) == a[1] * b[2] < b[1] * a[2]
RMin(a, b) == IF RLeq(a, b) THEN a ELSE b
RMax(a, b) == IF RLeq(a, b) THEN b ELSE a

-----------------------------------------------------------------------------
(* EventItem: the geometry of one rendered event.                          *)

\* Bounds of the rendered events.
MaxTotal == 4          \* an overlap group has at most this many columns
MaxItems == 2          \* EventItems mounted at once
DiffDays == 0..1       \* the day columns of the page an event may start in
Spacings == 0..2       \* overlapEventsSpacing
EdgeSpacings == 0..1   \* rightEdgeSpacing
ColumnWidths == {12, 24}

\* event._internal as far as the horizontal geometry reads it: the column range
\* [index, index + columnSpan) lies within [0, total).
Internals ==
    { e \in [total : 1..MaxTotal, index : 0..(MaxTotal - 1),
             columnSpan : 1..MaxTotal, diffDays : DiffDays] :
        e.index + e.columnSpan <= e.total }

\* A bug eventWidth could have: the spacing of every column is subtracted,
\* the event's own columns included.
eventWidthAllColumns(e) ==
    LET totalColumns == e.total
        totalOverlap == totalColumns * overlapEventsSpacing
        totalWidth == columnWidthAnim - rightEdgeSpacing - totalOverlap
    IN  RMul(RDiv(I(totalWidth), I(e.total)), I(e.columnSpan))

eventWidth(e) ==
    LET totalColumns == e.total - e.columnSpan
        totalOverlap == totalColumns * overlapEventsSpacing
        totalWidth == columnWidthAnim - rightEdgeSpacing - totalOverlap
    IN  RMul(RDiv(I(totalWidth), I(e.total)), I(e.columnSpan))

eventPosX(e) ==
    LET left == I(e.diffDays * columnWidthAnim)
    IN  RAdd(left, RMul(RAdd(eventWidth(e), I(overlapEventsSpacing)), I(e.index)))

\* The style of the event's view (height and top are not modelled here).
animView(e) ==
    [width |-> eventWidth(e), left |-> RAdd(eventPosX(e), I(1))]

InitLayout ==
    /\ columnWidthAnim \in ColumnWidths
    /\ rightEdgeSpacing \in EdgeSpacings
    /\ overlapEventsSpacing \in Spacings
    /\ items = {}

\* The body mounts an EventItem for a packed event of the page.
RenderEventItem(e) ==
    /\ Cardinality(items) < MaxItems
    /\ e \notin items
    /\ items' = items \cup {e}
    /\ UNCHANGED <<columnWidthAnim, rightEdgeSpacing, overlapEventsSpacing>>
    /\ UNCHANGED <<pageVars, propVars, navVars, zoomVars, call>>

\* The event leaves the page (or the event list changes).
UnmountEventItem(e) ==
    /\ e \in items
    /\ items' = items \ {e}
    /\ UNCHANGED <<columnWidthAnim, rightEdgeSpacing, overlapEventsSpacing>>
    /\ UNCHANGED <<pageVars, propVars, navVars, zoomVars, call>>

\* columnWidthAnim changes (rotation, numberOfDays); the derived values of
\* every mounted item are recomputed from it.
ColumnWidthChanged(w) ==
    /\ w # columnWidthAnim
    /\ columnWidthAnim' = w
    /\ UNCHANGED <<rightEdgeSpacing, overlapEventsSpacing, items>>
    /\ UNCHANGED <<pageVars, propVars, navVars, zoomVars, call>>

-----------------------------------------------------------------------------
(* CalendarContainer: props, the derived layout values, the date range.    *)

MaxNumberOfDays == 7              \* the render throws above it
DaysInWeek == 7                   \* daysToShow = 7 - hideWeekDaysCount
firstDay == 1                     \* prop firstDay, its default (Monday)
timeInterval == 60                \* prop timeInterval, its default
start == 0                        \* prop start, its default
MILLISECONDS_IN_DAY == 86400000

\* Bounds of the container's inputs.
NumWeeks == 2                     \* the date range spans this many weeks
NumberOfDaysProps == {1, 7, 8}    \* prop numberOfDays
HideWeekDaysProps == {<<>>, <<6, 7>>}   \* prop hideWeekDays
CalendarWidth == 480              \* calendarLayout.width
HourWidth == 60                   \* hourWidth

\* Days are numbered from a Monday: day 1 is a Monday, and a date is the unix
\* time of its midnight, a positive number.
LastDay == DaysInWeek * NumWeeks
unixOf(d) == d * MILLISECONDS_IN_DAY
dayOf(unix) == unix \div MILLISECONDS_IN_DAY
weekday(unix) == ((dayOf(unix) - 1) % DaysInWeek) + 1
minDate == unixOf(3)
maxDate == unixOf(LastDay - 2)
\* The dates a caller passes: every third day, the first day (before minDate)
\* and the day after the last week of the range.
DateInputs == { unixOf(d) : d \in { k \in 1..(LastDay + 1) :
                                      k = 1 \/ k = LastDay + 1 \/ k % 3 = 2 } }
InitialDates == { unixOf(4), unixOf(LastDay - 1) }

\* JavaScript truthiness of a number or undefined.
truthy(v) == v # NoDate

\* Array access and Array.prototype.indexOf, 0-based as in the program.
At(arr, i) == IF i \in 0..(Len(arr) - 1) THEN arr[i + 1] ELSE NoDate
indexOf(arr, x) ==
    IF \E i \in 1..Len(arr) : arr[i] = x
    THEN (CHOOSE i \in 1..Len(arr) :
            arr[i] = x /\ \A j \in 1..(i - 1) : arr[j] # x) - 1
    ELSE -1

daysToShowOf(hidden) == DaysInWeek - Len(hidden)

\* A bug numberOfDays could have: the comparison turned around.
numberOfDaysLarger(n, hidden) ==
    IF n < daysToShowOf(hidden) THEN daysToShowOf(hidden) ELSE n

numberOfDaysOf(n, hidden) ==
    IF n > daysToShowOf(hidden) THEN daysToShowOf(hidden) ELSE n

daysToShow == daysToShowOf(hideWeekDays)
numberOfDays == numberOfDaysOf(initialNumberOfDays, hideWeekDays)
isSingleDay == numberOfDays = 1
columns == IF isSingleDay THEN 1 ELSE daysToShow
columnWidth == RDiv(I(CalendarWidth - HourWidth), I(numberOfDays))
calendarGridWidth ==
    IF isSingleDay THEN I(CalendarWidth) ELSE I(CalendarWidth - HourWidth)

\* utils/dateUtils startOfWeek: back to the latest day whose weekday is first.
startOfWeek(unix, first) ==
    unix - ((weekday(unix) - first + DaysInWeek) % DaysInWeek) * MILLISECONDS_IN_DAY

\* utils/utils prepareCalendarRange: the days from minDate to maxDate (in week
\* mode, from the start of minDate's week to the end of maxDate's week) whose
\* weekday is not hidden, in ascending order.
visibleDatesArrayOf(single, hidden) ==
    LET lo == IF single THEN minDate ELSE startOfWeek(minDate, firstDay)
        hi == IF single THEN maxDate
              ELSE startOfWeek(maxDate, firstDay) + (DaysInWeek - 1) * MILLISECONDS_IN_DAY
        all == [i \in 1..(dayOf(hi) - dayOf(lo) + 1) |-> lo + (i - 1) * MILLISECONDS_IN_DAY]
        shown(u) == \A k \in 1..Len(hidden) : hidden[k] # weekday(u)
    IN  SelectSeq(all, shown)

\* calendarData.visibleDatesArray: useMemo computes the range once for each
\* value of isSingleDay and hideWeekDays.
calendarData ==
    [single \in BOOLEAN, hidden \in HideWeekDaysProps |->
        visibleDatesArrayOf(single, hidden)]

visibleDatesArray == calendarData[isSingleDay, hideWeekDays]

\* utils/utils findNearestNumber: the entries of the array nearest to the
\* target; of two entries equally near either may be the one returned.  An
\* empty array gives undefined.  nearestDistance is the distance of those entries.
RECURSIVE nearestDistance(_, _, _)
nearestDistance(arr, target, n) ==
    IF n = 1 THEN Abs(arr[1] - target)
    ELSE LET rest == nearestDistance(arr, target, n - 1)
             this == Abs(arr[n] - target)
         IN  IF this < rest THEN this ELSE rest

findNearestNumber(arr, target) ==
    IF Len(arr) = 0 THEN {NoDate}
    ELSE LET nearest == nearestDistance(arr, target, Len(arr))
         IN  { arr[i] : i \in { k \in 1..Len(arr) : Abs(arr[k] - target) = nearest } }

\* The values withTiming animates: timeIntervalHeight.value moves from its
\* current value to target in steps frames.
Settled(v) == [value |-> v, target |-> v, frames |-> 0]

\* The state useRef, useState, useLazyRef and useSharedValue create has no
\* value before the first render completes.
InitContainer(days, hides, byDay, heights) ==
    /\ phase = "unmounted"
    /\ error = NoString
    /\ initialNumberOfDays \in days
    /\ hideWeekDaysProp \in hides
    /\ scrollByDay \in byDay
    /\ \E h \in heights :
         /\ minTimeIntervalHeight = h[1]
         /\ maxTimeIntervalHeight = h[2]
         /\ initialTimeIntervalHeight = h[3]
    /\ hideWeekDays = Undefined
    /\ visibleDateUnix = NoDate
    /\ triggerDateChanged = NoDate
    /\ scrollType = NoString
    /\ timeIntervalHeight = Settled(Undefined)
    /\ offsetY = Undefined
    /\ gridScroll = NoScroll
    /\ verticalScroll = NoScroll
    /\ zoomCalls = 0
    /\ call = NoCall

\* The first render of CalendarContainer.
Render(initialDate) ==
    /\ phase = "unmounted"
    /\ IF initialNumberOfDays > MaxNumberOfDays
       THEN /\ phase' = "thrown"
            /\ error' = "The maximum number of days is 7"
            /\ UNCHANGED <<hideWeekDays, visibleDateUnix, triggerDateChanged,
                           scrollType, timeIntervalHeight, offsetY>>
       ELSE LET hidden == hideWeekDaysProp
                single == numberOfDaysOf(initialNumberOfDays, hidden) = 1
                date == IF scrollByDay THEN initialDate
                        ELSE startOfWeek(initialDate, firstDay)
            IN  /\ phase' = "mounted"
                /\ error' = NoString
                /\ hideWeekDays' = hidden
                /\ visibleDateUnix' \in
                       findNearestNumber(calendarData[single, hidden], date)
                /\ triggerDateChanged' = NoDate
                /\ scrollType' = "calendarGrid"
                /\ timeIntervalHeight' = Settled(I(initialTimeIntervalHeight))
                /\ offsetY' = I(0)
    /\ UNCHANGED <<initialNumberOfDays, hideWeekDaysProp, scrollByDay,
                   minTimeIntervalHeight, maxTimeIntervalHeight,
                   initialTimeIntervalHeight, gridScroll, verticalScroll,
                   zoomCalls, call, layoutVars>>

\* The prop hideWeekDays changes: the effect stores the new array in the state,
\* and calendarData is computed again from it.  The refs keep their values.
HideWeekDaysChanged(new) ==
    /\ phase = "mounted"
    /\ new # hideWeekDaysProp
    /\ hideWeekDaysProp' = new
    /\ hideWeekDays' =
         IF Len(new) = Len(hideWeekDays)
         THEN IF \A i \in 1..Len(new) : new[i] = hideWeekDays[i]
              THEN hideWeekDays ELSE new
         ELSE new
    /\ call' = [op |-> "render"]
    /\ gridScroll' = NoScroll
    /\ verticalScroll' = NoScroll
    /\ UNCHANGED <<phase, error, initialNumberOfDays, scrollByDay,
                   visibleDateUnix, triggerDateChanged, scrollType, layoutVars>>
    /\ UNCHANGED <<timeIntervalHeight, offsetY, zoomCalls, minTimeIntervalHeight,
                   maxTimeIntervalHeight, initialTimeIntervalHeight>>

-----------------------------------------------------------------------------
(* CalendarContainer: the horizontal navigation of the imperative handle.  *)

scrollVisibleHeight == 0          \* scrollVisibleHeight.current, as created
MinutesInputs == {90}             \* hour * 60 + minute of a goToDate date

minuteHeight == RDiv(timeIntervalHeight.value, I(timeInterval))
startOffset == RMul(I(start), minuteHeight)

\* scrollTo(gridListRef, x, 0, animated) and scrollTo(verticalListRef, 0, y, animated)
\* (the flag animated only chooses how the list moves there; it is left out).
GridScrollTo(x) == [requested |-> TRUE, x |-> x]
VerticalScrollTo(y) == [requested |-> TRUE, y |-> y]

\* The column width a day-by-day scroll advances by.
colWidth == IF isSingleDay THEN calendarGridWidth ELSE columnWidth

\* The offset goToDate computes for the day at visibleDayIndex.
goToDateOffset(visibleDayIndex) ==
    IF isSingleDay \/ scrollByDay
    THEN RMul(I(visibleDayIndex), colWidth)
    ELSE LET pageIndex == visibleDayIndex \div columns
         IN  RMul(I(pageIndex), RMul(columnWidth, I(columns)))

\* goToDate({date, hourScroll, animatedDate, animatedHour}); isScrollable is the
\* answer of calendarListRef.current?.isScrollable(offset, numberOfDays).
goToDate(date, minutes, hourScroll, isScrollable) ==
    /\ phase = "mounted"
    /\ LET targetDateUnix == IF ~scrollByDay THEN startOfWeek(date, firstDay) ELSE date
           visibleDates == visibleDatesArray
       IN  \E nearestUnix \in findNearestNumber(visibleDates, targetDateUnix) :
             LET visibleDayIndex == indexOf(visibleDates, nearestUnix)
                 offset == goToDateOffset(visibleDayIndex)
             IN  IF visibleDayIndex # -1 /\ isScrollable
                 THEN /\ triggerDateChanged' = nearestUnix
                      /\ scrollType' = "calendarGrid"
                      /\ gridScroll' = GridScrollTo(offset)
                 ELSE /\ gridScroll' = NoScroll
                      /\ UNCHANGED <<triggerDateChanged, scrollType>>
    /\ verticalScroll' =
         IF hourScroll
         THEN LET position == RSub(RMul(I(minutes), minuteHeight), startOffset)
                  scrollOffset == RDiv(I(scrollVisibleHeight), I(2))
              IN  VerticalScrollTo(RSub(position, scrollOffset))
         ELSE NoScroll
    /\ call' = [op |-> "goToDate", isScrollable |-> isScrollable]
    /\ UNCHANGED <<propVars, visibleDateUnix, layoutVars, zoomCalls, offsetY,
                   timeIntervalHeight, minTimeIntervalHeight,
                   maxTimeIntervalHeight, initialTimeIntervalHeight>>

\* The index and the offset goToNextPage targets from currentIndex.
nextPageIndex(currentIndex, forceScrollByDay) ==
    IF isSingleDay \/ forceScrollByDay \/ scrollByDay
    THEN currentIndex + 1
    ELSE currentIndex + columns

\* A bug goToPrevPage could have: Math.max(.., 0) left out.
prevPageIndexUnclamped(currentIndex, forceScrollByDay) ==
    IF isSingleDay \/ forceScrollByDay \/ scrollByDay
    THEN currentIndex - 1
    ELSE currentIndex - columns

\* The index goToPrevPage targets from currentIndex.
prevPageIndex(currentIndex, forceScrollByDay) ==
    IF isSingleDay \/ forceScrollByDay \/ scrollByDay
    THEN IF currentIndex - 1 > 0 THEN currentIndex - 1 ELSE 0
    ELSE IF currentIndex - columns > 0 THEN currentIndex - columns ELSE 0

\* The offset both compute for the index they target.
pageOffset(nextVisibleDayIndex, forceScrollByDay) ==
    IF isSingleDay \/ forceScrollByDay \/ scrollByDay
    THEN RMul(I(nextVisibleDayIndex), colWidth)
    ELSE LET pageIndex == nextVisibleDayIndex \div columns
         IN  RMul(I(pageIndex), RMul(columnWidth, I(columns)))

\* The body goToNextPage and goToPrevPage share once the target index is known.
scrollToPage(nextVisibleDayIndex, forceScrollByDay, isScrollable) ==
    LET nextOffset == pageOffset(nextVisibleDayIndex, forceScrollByDay)
        nextDateUnix == At(visibleDatesArray, nextVisibleDayIndex)
    IN  IF ~truthy(nextDateUnix) \/ ~isScrollable
        THEN /\ triggerDateChanged' = NoDate
             /\ gridScroll' = NoScroll
             /\ UNCHANGED scrollType
        ELSE /\ triggerDateChanged' = nextDateUnix
             /\ scrollType' = "calendarGrid"
             /\ gridScroll' = GridScrollTo(nextOffset)

\* A bug the guard could have: paging allowed while a date change is pending.
pagingBlockedNever == FALSE

\* The guard of goToNextPage and goToPrevPage: a programmatic change is pending.
pagingBlocked == truthy(triggerDateChanged)

goToNextPage(forceScrollByDay, isScrollable) ==
    /\ phase = "mounted"
    /\ LET currentIndex == indexOf(visibleDatesArray, visibleDateUnix)
       IN  IF pagingBlocked \/ currentIndex = -1
           THEN /\ gridScroll' = NoScroll
                /\ UNCHANGED <<triggerDateChanged, scrollType>>
           ELSE scrollToPage(nextPageIndex(currentIndex, forceScrollByDay),
                             forceScrollByDay, isScrollable)
    /\ call' = [op |-> "goToNextPage", forceScrollByDay |-> forceScrollByDay,
                isScrollable |-> isScrollable]
    /\ verticalScroll' = NoScroll
    /\ UNCHANGED <<propVars, visibleDateUnix, layoutVars>>
    /\ UNCHANGED <<timeIntervalHeight, offsetY, zoomCalls, minTimeIntervalHeight,
                   maxTimeIntervalHeight, initialTimeIntervalHeight>>

goToPrevPage(forceScrollByDay, isScrollable) ==
    /\ phase = "mounted"
    /\ LET currentIndex == indexOf(visibleDatesArray, visibleDateUnix)
       IN  IF pagingBlocked \/ currentIndex = -1
           THEN /\ gridScroll' = NoScroll
                /\ UNCHANGED <<triggerDateChanged, scrollType>>
           ELSE scrollToPage(prevPageIndex(currentIndex, forceScrollByDay),
                             forceScrollByDay, isScrollable)
    /\ call' = [op |-> "goToPrevPage", forceScrollByDay |-> forceScrollByDay,
                isScrollable |-> isScrollable]
    /\ verticalScroll' = NoScroll
    /\ UNCHANGED <<propVars, visibleDateUnix, layoutVars>>
    /\ UNCHANGED <<timeIntervalHeight, offsetY, zoomCalls, minTimeIntervalHeight,
                   maxTimeIntervalHeight, initialTimeIntervalHeight>>

setVisibleDate(initDate) ==
    /\ phase = "mounted"
    /\ visibleDateUnix' \in findNearestNumber(visibleDatesArray, initDate)
    /\ call' = [op |-> "setVisibleDate"]
    /\ gridScroll' = NoScroll
    /\ verticalScroll' = NoScroll
    /\ UNCHANGED <<propVars, triggerDateChanged, scrollType, layoutVars>>
    /\ UNCHANGED <<timeIntervalHeight, offsetY, zoomCalls, minTimeIntervalHeight,
                   maxTimeIntervalHeight, initialTimeIntervalHeight>>

\* The scroll handlers of the lists (not part of this file): the grid or the
\* day bar has come to rest at the date d, which becomes the visible date; a
\* pending programmatic change to that date is reported and cleared.  A list
\* that pages by week rests on the first day of a page.
ScrollTypes == {"calendarGrid", "dayBar"}
onGridScrolled(d, by) ==
    /\ phase = "mounted"
    /\ indexOf(visibleDatesArray, d) # -1
    /\ isSingleDay \/ scrollByDay \/ indexOf(visibleDatesArray, d) % columns = 0
    /\ visibleDateUnix' = d
    /\ scrollType' = by
    /\ triggerDateChanged' = IF triggerDateChanged = d THEN NoDate
                             ELSE triggerDateChanged
    /\ gridScroll' = NoScroll
    /\ verticalScroll' = NoScroll
    /\ call' = [op |-> "scrolled"]
    /\ UNCHANGED <<propVars, layoutVars>>
    /\ UNCHANGED <<timeIntervalHeight, offsetY, zoomCalls, minTimeIntervalHeight,
                   maxTimeIntervalHeight, initialTimeIntervalHeight>>

-----------------------------------------------------------------------------
(* CalendarContainer: zoom and the vertical axis.                          *)

\* Bounds of the zoom.
MaxZoomCalls == 3                 \* zoom calls in one run
AnimFrames == 2                   \* frames a withTiming animation takes
\* <<minTimeIntervalHeight, maxTimeIntervalHeight, initialTimeIntervalHeight>>
HeightProps == {<<6, 12, 6>>, <<6, 12, 20>>, <<6, 12, 3>>, <<12, 6, 8>>}
ScaleInputs == {Undefined, I(0), <<1, 2>>, I(2)}   \* props.scale
HeightInputs == {Undefined, I(0), I(30)}           \* props.height
OffsetInputs == {I(0), I(10)}     \* where the user's finger leaves the timeline
HourInputs == {2}                 \* goToHour's hour

\* utils/utils clampValues(value, lowerBound, upperBound).
clampValues(value, lowerBound, upperBound) ==
    RMin(RMax(lowerBound, value), upperBound)

\* A bug zoom could have: a scaled height taken as it is, unclamped.
zoomTargetScaleUnclamped(scale, height) ==
    LET newHeight == IF height # Undefined THEN height
                     ELSE I(initialTimeIntervalHeight)
    IN  IF scale # Undefined /\ scale # I(0)
        THEN RMul(timeIntervalHeight.value, scale)
        ELSE clampValues(newHeight, I(minTimeIntervalHeight), I(maxTimeIntervalHeight))

\* zoom's clampedHeight: props.height ?? initialTimeIntervalHeight, or the
\* current height times props.scale when scale is truthy, clamped.
zoomTarget(scale, height) ==
    LET heightOrInitial == IF height # Undefined THEN height
                           ELSE I(initialTimeIntervalHeight)
        newHeight == IF scale # Undefined /\ scale # I(0)
                     THEN RMul(timeIntervalHeight.value, scale)
                     ELSE heightOrInitial
    IN  clampValues(newHeight, I(minTimeIntervalHeight), I(maxTimeIntervalHeight))

\* A bug zoom could have: the offset normalised by the height the running
\* animation heads to, not by the height the timeline has now.
zoomScrollYByTarget(clampedHeight) ==
    RMul(clampedHeight, RDiv(offsetY, timeIntervalHeight.target))

\* zoom's y: clampedHeight * pinchYNormalized.
zoomScrollY(clampedHeight) ==
    LET pinchYNormalized == RDiv(offsetY, timeIntervalHeight.value)
        pinchYScale == RMul(clampedHeight, pinchYNormalized)
    IN  pinchYScale

\* timeIntervalHeight.value = withTiming(to): the value starts moving to it.
withTiming(shared, to) ==
    IF shared.value = to THEN Settled(to)
    ELSE [value |-> shared.value, target |-> to, frames |-> AnimFrames]

zoom(scale, height) ==
    /\ phase = "mounted"
    /\ zoomCalls < MaxZoomCalls
    /\ LET clampedHeight == zoomTarget(scale, height)
           y == zoomScrollY(clampedHeight)
       IN  /\ timeIntervalHeight' = withTiming(timeIntervalHeight, clampedHeight)
           /\ verticalScroll' = VerticalScrollTo(y)
    /\ zoomCalls' = zoomCalls + 1
    /\ call' = [op |-> "zoom", scale |-> scale, height |-> height]
    /\ gridScroll' = NoScroll
    /\ UNCHANGED <<propVars, visibleDateUnix, triggerDateChanged, scrollType,
                   layoutVars, offsetY, minTimeIntervalHeight,
                   maxTimeIntervalHeight, initialTimeIntervalHeight>>

goToHour(hour) ==
    /\ phase = "mounted"
    /\ LET minutes == (hour - start) * 60
           position == RMul(I(minutes), minuteHeight)
       IN  verticalScroll' = VerticalScrollTo(position)
    /\ call' = [op |-> "goToHour", hour |-> hour]
    /\ gridScroll' = NoScroll
    /\ UNCHANGED <<propVars, visibleDateUnix, triggerDateChanged, scrollType,
                   layoutVars, offsetY, timeIntervalHeight, zoomCalls,
                   minTimeIntervalHeight, maxTimeIntervalHeight,
                   initialTimeIntervalHeight>>

\* One frame of the running withTiming animation of timeIntervalHeight.
animationFrame ==
    /\ phase = "mounted"
    /\ timeIntervalHeight.frames > 0
    /\ LET t == timeIntervalHeight
           step == RDiv(RSub(t.target, t.value), I(t.frames))
       IN  timeIntervalHeight' =
             IF t.frames = 1 THEN Settled(t.target)
             ELSE [t EXCEPT !.value = RAdd(t.value, step), !.frames = t.frames - 1]
    /\ call' = [op |-> "frame"]
    /\ UNCHANGED <<propVars, navVars, layoutVars, offsetY, verticalScroll,
                   zoomCalls, minTimeIntervalHeight, maxTimeIntervalHeight,
                   initialTimeIntervalHeight>>

\* The vertical list's scroll handler (not part of this file): the list has
\* scrolled, to the offset last requested or to where the user dragged it.
onVerticalScrolled(y) ==
    /\ phase = "mounted"
    /\ y # offsetY
    /\ offsetY' = y
    /\ verticalScroll' = NoScroll
    /\ call' = [op |-> "scrolled"]
    /\ UNCHANGED <<propVars, navVars, layoutVars, timeIntervalHeight,
                   zoomCalls, minTimeIntervalHeight,
                   maxTimeIntervalHeight, initialTimeIntervalHeight>>

VerticalTargets ==
    OffsetInputs \cup (IF verticalScroll.requested THEN {verticalScroll.y} ELSE {})

-----------------------------------------------------------------------------
(* EventItem: the memo data (the event clipped to the day's hours and its  *)
(* day column), eventHeight and top.                                       *)

end == 1440                       \* prop end, its default

\* The inputs of an EventItem: the body's hours, the page and the event.
StartProps == {0, 480}            \* useBody().start
EndProps == {1080, 1440}          \* useBody().end
StartMinutesInputs == {0, 420, 1020, 1380}   \* _internal.startMinutes
DurationInputs == {0, 30, 120, 1440}         \* _internal.duration
PageStarts == {unixOf(5), unixOf(8)}         \* prop startUnix
EventStarts == {unixOf(d) : d \in {3, 5, 6, 8, 9}}   \* _internal.startUnix
\* prop visibleDates: the dates of the range, with or without the weekend.
VisibleDatesProps ==
    { { calendarData[FALSE, h][i] : i \in 1..Len(calendarData[FALSE, h]) } :
        h \in HideWeekDaysProps }

\* event._internal of an event that has its column to itself, with the fields
\* the memo reads.
TimedEvents ==
    [total : {1}, index : {0}, columnSpan : {1},
     startMinutes : StartMinutesInputs, duration : DurationInputs,
     startUnix : EventStarts]

\* The number of i = from, from + 1 day, ... below to with !visibleDates[i].
RECURSIVE hiddenDays(_, _, _)
hiddenDays(from, to, visible) ==
    IF from < to
    THEN (IF from \notin visible THEN 1 ELSE 0)
            + hiddenDays(from + MILLISECONDS_IN_DAY, to, visible)
    ELSE 0

\* A bug diffDays could have: the days of the calendar counted, hidden or not.
diffDaysOfCalendar(eventStartUnix, pageStartUnix, visible) ==
    (eventStartUnix - pageStartUnix) \div MILLISECONDS_IN_DAY

\* data.diffDays: Math.floor of the difference in days, then one column less
\* (or more, for an event before the page) for every day that is not visible.
diffDaysOf(eventStartUnix, pageStartUnix, visible) ==
    LET diffDays == (eventStartUnix - pageStartUnix) \div MILLISECONDS_IN_DAY
    IN  IF eventStartUnix < pageStartUnix
        THEN diffDays + hiddenDays(eventStartUnix, pageStartUnix, visible)
        ELSE diffDays - hiddenDays(pageStartUnix, eventStartUnix, visible)

\* The memo data of the EventItem of e.
data(e) ==
    LET maxDuration == bodyEnd - bodyStart
        newStart == e.startMinutes - bodyStart
        totalDuration == Min(e.duration, maxDuration)
    IN  [totalDuration |-> IF newStart < 0 THEN totalDuration + newStart
                           ELSE totalDuration,
         startMinutes |-> IF newStart < 0 THEN 0 ELSE newStart,
         diffDays |-> diffDaysOf(e.startUnix, startUnix, visibleDatesProp)]

eventHeight(e) == RMul(I(data(e).totalDuration), minuteHeight)
top(e) == RMul(I(data(e).startMinutes), minuteHeight)

\* The EventItem is rendered with the event ev (again, if it was mounted).
EventChanged(ev) ==
    /\ phase = "mounted"
    /\ items # {ev}
    /\ items' = {ev}
    /\ UNCHANGED <<columnWidthAnim, rightEdgeSpacing, overlapEventsSpacing>>
    /\ UNCHANGED <<pageVars, propVars, navVars, zoomVars, call>>

\* The body shows another page: the props startUnix and visibleDates change.
PageChanged(s, v) ==
    /\ phase = "mounted"
    /\ <<s, v>> # <<startUnix, visibleDatesProp>>
    /\ startUnix' = s
    /\ visibleDatesProp' = v
    /\ UNCHANGED <<columnWidthAnim, rightEdgeSpacing, overlapEventsSpacing, items,
                   bodyStart, bodyEnd>>
    /\ UNCHANGED <<propVars, navVars, zoomVars, call>>

\* The props start and end change; useBody() hands them on.
HoursChanged(st, en) ==
    /\ phase = "mounted"
    /\ <<st, en>> # <<bodyStart, bodyEnd>>
    /\ bodyStart' = st
    /\ bodyEnd' = en
    /\ UNCHANGED <<columnWidthAnim, rightEdgeSpacing, overlapEventsSpacing, items,
                   startUnix, visibleDatesProp>>
    /\ UNCHANGED <<propVars, navVars, zoomVars, call>>

-----------------------------------------------------------------------------
(* CalendarContainer: getDateByOffset and getEventByOffset, against the    *)
(* EventItems of the page.                                                 *)

\* The inputs of the hit test.
XInputs == {0, 35, 59, 100}                   \* position.x
YInputs == {12}                               \* position.y
\* The widths columnWidthAnim takes: columnWidth of the week view among them.
HitColumnWidths == {12, (CalendarWidth - HourWidth) \div MaxNumberOfDays}
HitEventStarts == {unixOf(1), unixOf(2)}      \* _internal.startUnix

\* event._internal of the packed events of the page, all at the same hour, in
\* groups of fewer columns than MaxTotal.
PackedEvents ==
    { e \in [total : 1..(MaxTotal - 1), index : 0..(MaxTotal - 2),
             columnSpan : 1..(MaxTotal - 1), startMinutes : {540}, duration : {60},
             startUnix : HitEventStarts] :
        e.index + e.columnSpan <= e.total }

\* Math.floor of a quotient.
Floor(r) == r[1] \div r[2]

\* What EventItem renders for e: its _internal and the day column of its data.
rendered(e) ==
    [total |-> e.total, index |-> e.index, columnSpan |-> e.columnSpan,
     diffDays |-> data(e).diffDays]

\* getDateByOffset: the date of the column x is in, with the minutes of y; no
\* date (an empty sequence) when the visible date or the column is not in
\* visibleDatesArray.
getDateByOffset(x, y) ==
    LET dayIndex == indexOf(visibleDatesArray, visibleDateUnix)
        columnIndex == Floor(RDiv(I(x), columnWidth))
        dateUnixByIndex == At(visibleDatesArray, dayIndex + columnIndex)
        minutes == Floor(RDiv(I(y), minuteHeight)) + start
    IN  IF dayIndex = -1 \/ ~truthy(dateUnixByIndex) THEN << >>
        ELSE <<dateUnixByIndex, minutes>>

\* eventsRef.current.getEventsByDate(dateString): the events of that day.
getEventsByDate(date) == { e \in items : e.startUnix = date[1] }

\* The test of getEventByOffset's loop for the event e.
hits(e, x) ==
    LET columnIndex == Floor(RDiv(I(x), columnWidth))
        eventWidthOfTotal == RDiv(columnWidth, I(e.total))
        eventX == RMul(I(e.index), eventWidthOfTotal)
        targetX == RSub(I(x), RMul(I(columnIndex), columnWidth))
    IN  RLeq(eventX, targetX) /\ RLeq(targetX, RAdd(eventX, eventWidthOfTotal))

\* getEventByOffset({x, y}): the first event of the day that the test accepts
\* (in whichever order getEventsByDate lists them), or null: result is the set
\* of the event returned, empty for null.
getEventByOffset(x, y) ==
    /\ phase = "mounted"
    /\ LET date == getDateByOffset(x, y)
           found == IF date = << >> THEN {}
                    ELSE { e \in getEventsByDate(date) : hits(e, x) }
       IN  \E result \in (IF found = {} THEN {{}} ELSE { {e} : e \in found }) :
              call' = [op |-> "getEventByOffset", x |-> x, result |-> result]
    /\ gridScroll' = NoScroll
    /\ verticalScroll' = NoScroll
    /\ UNCHANGED <<propVars, visibleDateUnix, triggerDateChanged, scrollType,
                   layoutVars, offsetY, timeIntervalHeight, zoomCalls,
                   minTimeIntervalHeight, maxTimeIntervalHeight,
                   initialTimeIntervalHeight>>

\* The body renders the page of the visible date: every EventItem gets the
\* container's visible date and visible dates as its props.
PageShown ==
    PageChanged(visibleDateUnix,
                { visibleDatesArray[i] : i \in 1..Len(visibleDatesArray) })

-----------------------------------------------------------------------------
(* The specifications.                                                     *)

DefaultHeights == {<<6, 12, 6>>}

\* No EventItem is mounted and the body's spacings are fixed.
PageIdle ==
    /\ startUnix = minDate
    /\ visibleDatesProp = {}
    /\ bodyStart = start
    /\ bodyEnd = end

LayoutIdle ==
    /\ columnWidthAnim = 12
    /\ rightEdgeSpacing = 0
    /\ overlapEventsSpacing = 0
    /\ items = {}
    /\ PageIdle

\* The container and its navigation: mounting, the prop hideWeekDays, goToDate,
\* goToNextPage, goToPrevPage, setVisibleDate and the lists' scroll handlers.
Init ==
    /\ InitContainer(NumberOfDaysProps, HideWeekDaysProps, BOOLEAN, DefaultHeights)
    /\ LayoutIdle

Next ==
    \/ \E d \in InitialDates : Render(d)
    \/ \E h \in HideWeekDaysProps : HideWeekDaysChanged(h)
    \/ \E d \in DateInputs, m \in MinutesInputs, hs, sc \in BOOLEAN :
         goToDate(d, m, hs, sc)
    \/ \E force, sc \in BOOLEAN : goToNextPage(force, sc)
    \/ \E force, sc \in BOOLEAN : goToPrevPage(force, sc)
    \/ \E d \in DateInputs : setVisibleDate(d)
    \/ \E d \in DateInputs, by \in ScrollTypes : onGridScrolled(d, by)

Spec == Init /\ [][Next]_vars

\* The zoom of a mounted week view.
InitZoom ==
    /\ InitContainer({MaxNumberOfDays}, {<<>>}, {FALSE}, HeightProps)
    /\ LayoutIdle

NextZoom ==
    \/ \E d \in InitialDates : Render(d)
    \/ \E sc \in ScaleInputs, h \in HeightInputs : zoom(sc, h)
    \/ \E h \in HourInputs : goToHour(h)
    \/ animationFrame
    \/ \E y \in VerticalTargets : onVerticalScrolled(y)

SpecZoom == InitZoom /\ [][NextZoom]_vars

\* The EventItems of a page, under a container that is not modelled further.
InitItems ==
    /\ InitContainer({MaxNumberOfDays}, {<<>>}, {FALSE}, DefaultHeights)
    /\ InitLayout
    /\ PageIdle

NextItems ==
    \/ \E e \in Internals : RenderEventItem(e)
    \/ \E e \in Internals : UnmountEventItem(e)
    \/ \E w \in ColumnWidths : ColumnWidthChanged(w)

SpecItems == InitItems /\ [][NextItems]_vars

\* One EventItem of a mounted week view: its event, its page and the day's
\* hours change.
InitData ==
    /\ InitContainer({MaxNumberOfDays}, {<<>>}, {FALSE}, HeightProps)
    /\ columnWidthAnim = 12
    /\ rightEdgeSpacing = 0
    /\ overlapEventsSpacing = 0
    /\ items = {}
    /\ startUnix \in PageStarts
    /\ visibleDatesProp \in VisibleDatesProps
    /\ bodyStart \in StartProps
    /\ bodyEnd \in EndProps

NextData ==
    \/ \E d \in InitialDates : Render(d)
    \/ \E ev \in TimedEvents : EventChanged(ev)
    \/ \E s \in PageStarts, v \in VisibleDatesProps : PageChanged(s, v)
    \/ \E st \in StartProps, en \in EndProps : HoursChanged(st, en)

SpecData == InitData /\ [][NextData]_vars

\* The hit test of a mounted week view against the EventItems of its page.
InitHit ==
    /\ InitContainer({MaxNumberOfDays}, {<<>>}, {FALSE}, DefaultHeights)
    /\ columnWidthAnim \in HitColumnWidths
    /\ rightEdgeSpacing \in EdgeSpacings
    /\ overlapEventsSpacing \in {0, 1}
    /\ items = {}
    /\ PageIdle

NextHit ==
    \/ \E d \in {unixOf(4)} : Render(d)
    \/ PageShown
    \/ \E w \in HitColumnWidths : ColumnWidthChanged(w)
    \/ \E e \in PackedEvents : RenderEventItem(e)
    \/ \E e \in PackedEvents : UnmountEventItem(e)
    \/ \E x \in XInputs, y \in YInputs : getEventByOffset(x, y)

SpecHit == InitHit /\ [][NextHit]_vars

-----------------------------------------------------------------------------
(* The claims about EventItem's horizontal geometry (SpecItems).           *)

left(e) == eventPosX(e)
right(e) == RAdd(eventPosX(e), eventWidth(e))
\* The column ranges [index, index + columnSpan) of two events are disjoint.
DisjointColumns(a, b) ==
    a.index + a.columnSpan <= b.index \/ b.index + b.columnSpan <= a.index
\* Two rendered extents share more than a border.
Collide(a, b) == RLt(left(a), right(b)) /\ RLt(left(b), right(a))

\* C1: two events of one day column with the same total and disjoint column
\* ranges inside [0, total) are rendered on horizontal extents that do not
\* collide.  (Extents that only touch at a border are not counted as a
\* collision here, which is the reading most favourable to the code.)
C1_NoCollision ==
    \A a, b \in items :
        (a.diffDays = b.diffDays /\ a.total = b.total /\ DisjointColumns(a, b))
            => ~Collide(a, b)

\* C2: an event alone in its column (total = 1, index = 0, columnSpan = 1) is
\* columnWidth - rightEdgeSpacing wide and starts at diffDays * columnWidth; no
\* overlapEventsSpacing is subtracted.
C2_FullWidth ==
    \A e \in items :
        (e.total = 1 /\ e.index = 0 /\ e.columnSpan = 1)
            => /\ eventWidth(e) = I(columnWidthAnim - rightEdgeSpacing)
               /\ eventPosX(e) = I(e.diffDays * columnWidthAnim)

\* A lone event is rendered in the second day column under a positive
\* overlapEventsSpacing and a positive rightEdgeSpacing.
C2_Witness ==
    \E e \in items :
        /\ e.total = 1 /\ e.diffDays = 1
        /\ overlapEventsSpacing > 0 /\ rightEdgeSpacing > 0

\* C6: every rendered event stays inside its day column:
\* diffDays * columnWidth <= left and
\* left + width <= (diffDays + 1) * columnWidth - rightEdgeSpacing,
\* events with columnSpan > 1 and index > 0 included.  (left is eventPosX, without
\* the pixel animView adds, which is the reading most favourable to the code.)
C6_InsideColumn ==
    \A e \in items :
        (e.index >= 0 /\ e.columnSpan >= 1 /\ e.index + e.columnSpan <= e.total)
            => /\ RLeq(I(e.diffDays * columnWidthAnim), left(e))
               /\ RLeq(right(e),
                       I((e.diffDays + 1) * columnWidthAnim - rightEdgeSpacing))

-----------------------------------------------------------------------------
(* The claims about zoom (SpecZoom).                                       *)

\* C4: provided minTimeIntervalHeight <= maxTimeIntervalHeight, after any
\* sequence of zoom calls the height zoom has set as the target lies between
\* the two, and a zoom with neither scale nor height targets
\* initialTimeIntervalHeight brought into that range.
C4_ZoomTargetInRange ==
    (phase = "mounted" /\ minTimeIntervalHeight <= maxTimeIntervalHeight)
        => /\ zoomCalls > 0 =>
                /\ RLeq(I(minTimeIntervalHeight), timeIntervalHeight.target)
                /\ RLeq(timeIntervalHeight.target, I(maxTimeIntervalHeight))
           /\ (call.op = "zoom" /\ call.scale = Undefined /\ call.height = Undefined)
                => timeIntervalHeight.target =
                     IF initialTimeIntervalHeight < minTimeIntervalHeight
                     THEN I(minTimeIntervalHeight)
                     ELSE IF initialTimeIntervalHeight > maxTimeIntervalHeight
                          THEN I(maxTimeIntervalHeight)
                          ELSE I(initialTimeIntervalHeight)

\* A second or later zoom, called with neither scale nor height under an
\* initialTimeIntervalHeight above the maximum, has targeted the maximum.
C4_Witness ==
    /\ call.op = "zoom" /\ call.scale = Undefined /\ call.height = Undefined
    /\ zoomCalls >= 2
    /\ minTimeIntervalHeight <= maxTimeIntervalHeight
    /\ initialTimeIntervalHeight > maxTimeIntervalHeight
    /\ timeIntervalHeight.target = I(maxTimeIntervalHeight)

\* C7: right after a zoom call, the vertical offset y it requested satisfies
\* y * (height before the call) = (clamped new height) * offsetY, and so the
\* normalised offsets y / (clamped new height) and offsetY / (height before)
\* are equal.  (zoom leaves offsetY and the current height as they were: the
\* state right after the call still holds the values the call read.)
C7_ZoomKeepsNormalisedOffset ==
    call.op = "zoom"
        => /\ verticalScroll.requested
           /\ RMul(verticalScroll.y, timeIntervalHeight.value)
                = RMul(timeIntervalHeight.target, offsetY)
           /\ RDiv(verticalScroll.y, timeIntervalHeight.target)
                = RDiv(offsetY, timeIntervalHeight.value)

\* A zoom is called while an earlier zoom's animation is between two heights
\* and the timeline is scrolled away from the top; it rescales.
C7_Witness ==
    /\ call.op = "zoom"
    /\ zoomCalls >= 2
    /\ offsetY # I(0)
    /\ timeIntervalHeight.value \notin
         {I(minTimeIntervalHeight), I(maxTimeIntervalHeight),
          I(initialTimeIntervalHeight)}
    /\ timeIntervalHeight.target # timeIntervalHeight.value
    /\ verticalScroll.y # offsetY

-----------------------------------------------------------------------------
(* The claims about mounting and the horizontal navigation (Spec).         *)

\* C5: a numberOfDays prop above 7 makes the render throw 'The maximum number
\* of days is 7' before any state is created, and a container never mounts
\* with one; for every accepted numberOfDays the effective number of days is
\* min(numberOfDays, 7 - number of hidden weekdays).
C5_MaxNumberOfDays ==
    /\ initialNumberOfDays > 7 => phase \in {"unmounted", "thrown"}
    /\ phase = "thrown" =>
          /\ initialNumberOfDays > 7
          /\ error = "The maximum number of days is 7"
          /\ hideWeekDays = Undefined
          /\ visibleDateUnix = NoDate /\ triggerDateChanged = NoDate
          /\ scrollType = NoString
          /\ timeIntervalHeight = Settled(Undefined) /\ offsetY = Undefined
    /\ phase = "mounted" =>
          /\ initialNumberOfDays <= 7
          /\ error = NoString
          /\ numberOfDays = Min(initialNumberOfDays, 7 - Len(hideWeekDays))

\* The render of a container given numberOfDays = 8 has thrown.
C5_Witness ==
    /\ phase = "thrown"
    /\ initialNumberOfDays = 8
    /\ error = "The maximum number of days is 7"

PagingOps == {"goToNextPage", "goToPrevPage"}
InArray(d) == indexOf(visibleDatesArray, d) # -1

\* C8: while a programmatic date change is pending, goToNextPage and
\* goToPrevPage request no scroll and leave triggerDateChanged, scrollType and
\* the visible date as they are; goToDate is not held back: when the list
\* reports its offset scrollable it requests the scroll and stores a date of
\* visibleDatesArray as the pending one, with the scroll type calendarGrid.
C8_PagingHeldWhilePending ==
    [][ (phase = "mounted" /\ truthy(triggerDateChanged)) =>
          /\ call'.op \in PagingOps =>
                /\ gridScroll' = NoScroll
                /\ UNCHANGED <<triggerDateChanged, scrollType, visibleDateUnix>>
          /\ (call'.op = "goToDate" /\ call'.isScrollable) =>
                /\ gridScroll'.requested
                /\ InArray(triggerDateChanged')
                /\ scrollType' = "calendarGrid"
      ]_vars

\* goToNextPage was called with a date change pending, from a visible date
\* that has a next page and with the list scrollable, and asked for no scroll.
C8_Witness ==
    /\ call.op = "goToNextPage" /\ call.isScrollable
    /\ truthy(triggerDateChanged)
    /\ gridScroll = NoScroll
    /\ InArray(visibleDateUnix)
    /\ indexOf(visibleDatesArray, visibleDateUnix) + columns < Len(visibleDatesArray)

\* The paging mode of a call and the index it is to target from the index of
\* the visible date, as the claim states them.
ByDay(force) == isSingleDay \/ scrollByDay \/ force
NextTarget(cur, force) == IF ByDay(force) THEN cur + 1 ELSE cur + columns
PrevTarget(cur, force) ==
    IF ByDay(force) THEN (IF cur >= 1 THEN cur - 1 ELSE 0)
    ELSE (IF cur >= columns THEN cur - columns ELSE 0)
ValidIndex(i) == i \in 0..(Len(visibleDatesArray) - 1)

\* C9: goToNextPage requests a scroll only when its target index (current
\* index + 1 by day, + columns by week) is an index of visibleDatesArray and
\* the list reports the offset scrollable; otherwise it requests none and
\* leaves triggerDateChanged unset.  goToPrevPage targets the index lowered by
\* the same step but never below 0.  Neither does anything when the visible
\* date is not in visibleDatesArray.  (A call made while a change is pending
\* is C8's case.)
C9_PagingStaysInRange ==
    [][ (phase = "mounted" /\ ~truthy(triggerDateChanged) /\ call'.op \in PagingOps) =>
          LET cur == indexOf(visibleDatesArray, visibleDateUnix)
              force == call'.forceScrollByDay
              target == IF call'.op = "goToNextPage" THEN NextTarget(cur, force)
                        ELSE PrevTarget(cur, force)
              go == cur # -1 /\ ValidIndex(target) /\ call'.isScrollable
          IN  /\ target >= 0
              /\ go => /\ gridScroll'.requested
                       /\ triggerDateChanged' = At(visibleDatesArray, target)
                       /\ RLeq(I(0), gridScroll'.x)
              /\ ~go => /\ gridScroll' = NoScroll
                        /\ triggerDateChanged' = NoDate
              /\ cur = -1 => UNCHANGED <<triggerDateChanged, scrollType, visibleDateUnix>>
              /\ UNCHANGED visibleDateUnix
      ]_vars

\* goToNextPage was called on the last page with the list scrollable: no
\* scroll was requested and no date change is pending.
C9_Witness ==
    /\ call.op = "goToNextPage" /\ call.isScrollable
    /\ InArray(visibleDateUnix)
    /\ ~ValidIndex(NextTarget(indexOf(visibleDatesArray, visibleDateUnix),
                              call.forceScrollByDay))
    /\ gridScroll = NoScroll
    /\ triggerDateChanged = NoDate

\* The index of visibleDatesArray the requested offset points to: offset /
\* column width by day, pageIndex * columns by week.
PointedIndex(x, byDay) ==
    IF byDay THEN RDiv(x, colWidth)
    ELSE RMul(RDiv(x, RMul(columnWidth, I(columns))), I(columns))

\* C10, for goToNextPage and goToPrevPage: whenever one of them has requested
\* a horizontal scroll, triggerDateChanged is the entry of visibleDatesArray at
\* the index the requested offset points to (offset / column width by day, the
\* first date of the page by week), after any sequence of setVisibleDate,
\* goToDate and paging calls.
C10_PendingDateNamesPage ==
    (call.op \in PagingOps /\ gridScroll.requested) =>
        LET i == PointedIndex(gridScroll.x, ByDay(call.forceScrollByDay))
        IN  /\ i[2] = 1
            /\ triggerDateChanged = At(visibleDatesArray, i[1])

-----------------------------------------------------------------------------
(* The claims about EventItem's memo data (SpecData).                      *)

\* The dates from, from + 1 day, ... strictly before to.
DaysFrom(from, to) ==
    { from + k * MILLISECONDS_IN_DAY :
        k \in 0..(((to - from) \div MILLISECONDS_IN_DAY) - 1) }
WholeDaysApart(a, b) == (a - b) % MILLISECONDS_IN_DAY = 0

\* C11: when eventStartUnix and startUnix differ by a whole number of days,
\* diffDays is the number of dates of visibleDates among startUnix,
\* startUnix + 1 day, ... strictly before eventStartUnix when the event is not
\* before the page, and minus the number of visible dates among eventStartUnix,
\* ... strictly before startUnix when it is; a hidden day adds no column.
C11_DiffDaysCountsVisibleDays ==
    \A e \in items :
        (phase = "mounted" /\ WholeDaysApart(e.startUnix, startUnix))
            => data(e).diffDays =
                 IF e.startUnix >= startUnix
                 THEN Cardinality(DaysFrom(startUnix, e.startUnix) \cap visibleDatesProp)
                 ELSE -Cardinality(DaysFrom(e.startUnix, startUnix) \cap visibleDatesProp)

\* An event of the Monday after a hidden weekend is shown on a page that
\* starts on the Friday before: it is in the second column, not the fourth.
C11_Witness ==
    \E e \in items :
        /\ phase = "mounted"
        /\ startUnix = unixOf(5) /\ e.startUnix = unixOf(8)
        /\ unixOf(6) \notin visibleDatesProp /\ unixOf(7) \notin visibleDatesProp
        /\ data(e).diffDays = 1

\* C13: a rendered event is clipped to the visible hours [start, end]: for any
\* startMinutes and any duration >= 0, top >= 0, height >= 0 and
\* top + height <= (end - start) * minuteHeight; an event that begins before
\* start is drawn from top = 0.
C13_ClippedToRange ==
    \A e \in items :
        (phase = "mounted" /\ e.duration >= 0)
            => /\ RLeq(I(0), top(e))
               /\ RLeq(I(0), eventHeight(e))
               /\ RLeq(RAdd(top(e), eventHeight(e)),
                       RMul(I(bodyEnd - bodyStart), minuteHeight))
               /\ e.startMinutes < bodyStart => top(e) = I(0)

-----------------------------------------------------------------------------
(* The claim about the hit test (SpecHit).                                 *)

\* The horizontal extent EventItem renders for e, and x strictly inside it.
InExtent(e, x) ==
    /\ RLeq(eventPosX(rendered(e)), I(x))
    /\ RLeq(I(x), RAdd(eventPosX(rendered(e)), eventWidth(rendered(e))))
InsideExtent(e, x) ==
    /\ RLt(eventPosX(rendered(e)), I(x))
    /\ RLt(I(x), RAdd(eventPosX(rendered(e)), eventWidth(rendered(e))))

\* The EventItems are rendered for the page the container shows, at its
\* column width.
PageInStep ==
    /\ phase = "mounted"
    /\ I(columnWidthAnim) = columnWidth
    /\ startUnix = visibleDateUnix
    /\ visibleDatesProp = { visibleDatesArray[i] : i \in 1..Len(visibleDatesArray) }

\* C12: hit-testing agrees with rendering: for every event of a day and every
\* x inside that day's column, if x lies within the horizontal extent
\* EventItem renders for the event, getEventByOffset at x resolves to that
\* event, and an x outside every event's rendered extent resolves to null.
\* (Read in the code's favour: x is to be strictly inside the event's extent
\* and inside no other event's, so that a border shared by two events is no
\* disagreement.)
C12_HitTestAgreesWithRendering ==
    (call.op = "getEventByOffset" /\ PageInStep
        /\ getDateByOffset(call.x, 0) # << >>)
        => /\ \A e \in getEventsByDate(getDateByOffset(call.x, 0)) :
                 (/\ InsideExtent(e, call.x)
                  /\ \A o \in items \ {e} : ~InExtent(o, call.x))
                    => call.result = {e}
           /\ (\A e \in items : ~InExtent(e, call.x)) => call.result = {}

====
